---- MODULE Spec2Model ----
(***************************************************************************)
(* A model of python-fakturoid: the paged list (fakturoid/paging.py), the  *)
(* model layer (fakturoid/models.py) and the transport and resource        *)
(* adapters (fakturoid/api.py).                                            *)
(*                                                                         *)
(* A Python value that may be None is a sequence of length at most one:    *)
(* None is <<>> and a present value x is <<x>>.  A handler is one action:  *)
(* it runs to its return or to the exception it raises.                    *)
(***************************************************************************)
EXTENDS Integers, Sequences, FiniteSets, TLC

VARIABLES
    \* ---- the server collection behind one ModelList, and the transport
    srv_n,          \* N: number of items of the collection
    srv_p,          \* P: page size the server uses
    faulty,         \* whether the transport may raise during a page request
    \* ---- PagedResource fields (paging.py:11-14)
    objects,        \* self.objects: None or the materialized list
    pages,          \* self.pages: dict page number -> page
    item_count,     \* self.item_count: None or an int
    \* ---- observation of the paged list
    reqs,           \* page number -> number of GETs sent for that page
    it,             \* the islice object a slice returned (None: no slice taken)
    pret,           \* outcome of the last paged-list operation
    pops            \* number of paged-list operations performed

pvars == <<srv_n, srv_p, faulty, objects, pages, item_count, reqs, it, pret, pops>>

VARIABLES
    \* ---- model objects (models.py)
    obj,            \* instance -> the model object
    cls_lines,      \* AbstractInvoice.lines, the class attribute (one list)
    mout,           \* the last get_fields() call: instance, object before, output
    mops            \* number of model operations performed

mvars == <<obj, cls_lines, mout, mops>>

VARIABLES
    \* ---- the Fakturoid client (api.py)
    client,         \* "none": not constructed, "built", "failed": __init__ raised
    token,          \* self.token (None: the attribute was never set)
    exchanges,      \* number of token exchanges (POSTs to oauth/token)
    sent,           \* number of requests _make_request has sent
    last_req,       \* the last request _make_request sent (None: none yet)
    lst,            \* what the last find() returned (None: nothing yet)
    aret,           \* outcome of the last client call
    aops            \* number of client calls performed

avars == <<client, token, exchanges, sent, last_req, lst, aret, aops>>

vars == <<pvars, mvars, avars>>

None == <<>>
Some(x) == <<x>>

\* ---------------------------------------------------------------- bounds
MaxN == 4           \* largest server collection
MaxP == 3           \* largest page size
MaxPagedOps == 3    \* paged-list operations per behaviour
MaxModelOps == 3    \* model operations per behaviour
MaxLines == 2       \* longest 'lines' list a caller builds by appending
MaxApiOps == 2      \* client calls per behaviour

\* ------------------------------------------------------------ the server
\* Page numbers the list can ask for: 0 .. (at most) one past the last page.
PageNos == 0..MaxN

Min(a, b) == IF a < b THEN a ELSE b
Max(a, b) == IF a > b THEN a ELSE b

\* Number of non-empty pages of a collection of n items in pages of p.
NonEmptyPages(n, p) == (n + p - 1) \div p

\* Items are named by their server position 1..N.  The server answers the
\* request for (0-based) page n with items n*P+1 .. min((n+1)*P, N).
ServerPage(n) ==
    LET lo == n * srv_p
        len == Max(0, Min(srv_p, srv_n - lo))
    IN  [k \in 1..len |-> lo + k]

\* No request of the handler fails.
NoFault == 0 - 1

\* --------------------------------------------------------- PagedResource
\* The list's fields as one record, threaded through a handler; exc is the
\* exception in flight ("" for none), page the page get_page returned, val
\* the handler's return value (a sequence: one element for a scalar).
Cur ==
    [objects |-> objects, pages |-> pages, item_count |-> item_count,
     reqs |-> reqs, exc |-> "", page |-> <<>>, val |-> <<>>]

\* ModelList.load_page: one GET for page n+1; f is the page number whose
\* request raises in this handler.
load_page(s, n, f) ==
    LET asked == [s EXCEPT !.reqs[n] = @ + 1]
    IN  IF f = n
        THEN [asked EXCEPT !.exc = "HTTPError"]
        ELSE [asked EXCEPT !.page = ServerPage(n)]

\* get_page, after the page was not found in self.pages and was requested:
\* a non-empty page is cached and returned, an empty one is the end of list.
cache_page(r, n) ==
    IF r.exc # "" THEN r
    ELSE IF r.page # <<>>
    THEN [r EXCEPT !.pages = (n :> r.page) @@ r.pages]
    ELSE [r EXCEPT !.exc = "IndexError"]

get_page(s, n, f) ==
    IF n \in DOMAIN s.pages
    THEN [s EXCEPT !.page = s.pages[n]]
    ELSE cache_page(load_page(s, n, f), n)

extend_objects_assign(objs, page) == page

\* self.objects.extend(page)
extend_objects(objs, page) == objs \o page

\* load_all_pages: the loop over itertools.count(); load_step is the loop
\* body once get_page(n) has returned or raised.
RECURSIVE load_loop(_, _, _)
load_step(r, n, f) ==
    IF r.exc = "IndexError" THEN [r EXCEPT !.exc = "", !.page = <<>>]
    ELSE IF r.exc # "" THEN r
    ELSE load_loop([r EXCEPT !.objects = Some(extend_objects(r.objects[1], r.page)),
                             !.item_count = Some(r.item_count[1] + Len(r.page))],
                   n + 1, f)

load_loop(s, n, f) == load_step(get_page(s, n, f), n, f)

load_all_pages(s, f) ==
    load_loop([s EXCEPT !.objects = Some(<<>>), !.item_count = Some(0)], 0, f)

\* "not self.objects": None and the empty list are both falsy.
not_objects(s) == s.objects = None \/ s.objects[1] = <<>>

ensure_all_pages(s, f) ==
    IF not_objects(s) THEN load_all_pages(s, f) ELSE s

\* __len__: return self.item_count, once ensure_all_pages has returned r.
return_item_count(r) ==
    IF r.exc # "" THEN r ELSE [r EXCEPT !.val = <<r.item_count[1]>>]

list_len(s, f) == return_item_count(ensure_all_pages(s, f))

\* self.objects[key] for key >= 0 (Python's list indexing is 0-based).
objects_at(s, key) ==
    IF key < Len(s.objects[1])
    THEN [s EXCEPT !.val = <<s.objects[1][key + 1]>>]
    ELSE [s EXCEPT !.exc = "IndexError", !.val = <<>>]

index_from_end_abs(l, key) ==
    IF l.exc # "" THEN l ELSE objects_at(l, 0 - key)

\* __getitem__, key < 0: key = len(self) + key, with l what len(self) gave.
index_from_end(l, key) ==
    IF l.exc # "" THEN l
    ELSE IF l.val[1] + key < 0
    THEN [l EXCEPT !.exc = "IndexError", !.val = <<>>]
    ELSE objects_at(l, l.val[1] + key)

\* __getitem__ with an int key, once ensure_all_pages has returned r.
index_loaded(r, key, f) ==
    IF r.exc # "" THEN r
    ELSE IF key < 0 THEN index_from_end(list_len(r, f), key)
    ELSE objects_at(r, key)

getitem_int(s, key, f) == index_loaded(ensure_all_pages(s, f), key, f)

\* "for x in lst": the list defines no __iter__, so Python iterates it by
\* __getitem__(0), __getitem__(1), ... until IndexError; iterate_step is
\* the step once __getitem__(i) has returned or raised.
RECURSIVE iterate_from(_, _, _, _)
iterate_step(r, i, acc, f) ==
    IF r.exc = "IndexError" THEN [r EXCEPT !.exc = "", !.val = acc]
    ELSE IF r.exc # "" THEN [r EXCEPT !.val = acc]
    ELSE iterate_from(r, i + 1, acc \o r.val, f)

iterate_from(s, i, acc, f) == iterate_step(getitem_int(s, i, f), i, acc, f)

iterate(s, f) == iterate_from(s, 0, <<>>, f)

\* slice.indices(len) for a positive step: (start, stop) clamped to 0..len.
slice_bound(arg, len, default) ==
    IF arg = None THEN default
    ELSE IF arg[1] < 0 THEN Max(arg[1] + len, 0)
    ELSE Min(arg[1], len)

\* __getitem__ with a slice key: islice(self, *key.indices(len(self))), with
\* l what len(self) gave.  key.indices raises ValueError for step 0 and
\* islice for a negative step.  The islice object: nxt is the next index to
\* yield, cnt the number of items pulled from the underlying iterator, done
\* whether it is exhausted.
make_islice(l, start, stop, step) ==
    IF l.exc # "" THEN [s |-> l, z |-> None]
    ELSE IF step <= 0
    THEN [s |-> [l EXCEPT !.exc = "ValueError", !.val = <<>>], z |-> None]
    ELSE [s |-> [l EXCEPT !.val = <<>>],
          z |-> Some([nxt  |-> slice_bound(start, l.val[1], 0),
                      stop |-> slice_bound(stop, l.val[1], l.val[1]),
                      step |-> step, cnt |-> 0, done |-> FALSE])]

slice_loaded(r, start, stop, step, f) ==
    IF r.exc # "" THEN [s |-> r, z |-> None]
    ELSE make_islice(list_len(r, f), start, stop, step)

getitem_slice(s, start, stop, step, f) ==
    slice_loaded(ensure_all_pages(s, f), start, stop, step, f)

\* Iterating the islice object to its end: it pulls self[0], self[1], ...
\* from the list's sequence iterator, skipping to nxt and stopping at stop;
\* islice_pulled is the step once self[cnt] has returned or raised.
RECURSIVE islice_run(_, _, _, _)
islice_pulled(r, z, acc, f) ==
    IF r.exc = "IndexError"
    THEN [s |-> [r EXCEPT !.exc = "", !.val = acc], z |-> Some([z EXCEPT !.done = TRUE])]
    ELSE IF r.exc # "" THEN [s |-> [r EXCEPT !.val = acc], z |-> Some(z)]
    ELSE IF z.cnt < z.nxt
    THEN islice_run(r, [z EXCEPT !.cnt = @ + 1], acc, f)
    ELSE islice_run(r, [z EXCEPT !.cnt = @ + 1, !.nxt = @ + z.step], acc \o r.val, f)

islice_run(s, z, acc, f) ==
    IF z.done THEN [s |-> [s EXCEPT !.val = acc], z |-> Some(z)]
    ELSE IF z.cnt >= z.nxt /\ z.cnt >= z.stop
    THEN [s |-> [s EXCEPT !.val = acc], z |-> Some([z EXCEPT !.done = TRUE])]
    ELSE islice_pulled(getitem_int(s, z.cnt, f), z, acc, f)

\* ------------------------------------------------- paged-list operations
RECURSIVE sum_upto(_, _)
sum_upto(rq, n) == IF n < 0 THEN 0 ELSE rq[n] + sum_upto(rq, n - 1)

\* Number of page requests sent so far.
SumReqs(rq) == sum_upto(rq, MaxN)

\* The page requests the transport may fail in one handler.
Faults == IF faulty THEN {NoFault} \cup PageNos ELSE {NoFault}

\* Index and slice arguments the caller passes.
Keys == (0 - (MaxN + 1))..MaxN
StartArgs == {None, Some(0), Some(1), Some(0 - 1)}
StopArgs == {None, Some(2), Some(0 - 1)}
StepArgs == {1, 2, 0 - 1}

\* The outcome of a handler: its return value or exception, the number of
\* page requests it sent (nreq) and whether it found the list not yet
\* materialized (mat: "not self.objects" held when it was called).
Outcome(op, arg, r) ==
    [op |-> op, arg |-> arg, exc |-> r.exc, val |-> r.val,
     nreq |-> SumReqs(r.reqs) - SumReqs(reqs), mat |-> not_objects(Cur)]

Commit(op, arg, r) ==
    /\ objects' = r.objects
    /\ pages' = r.pages
    /\ item_count' = r.item_count
    /\ reqs' = r.reqs
    /\ pret' = Outcome(op, arg, r)
    /\ pops' = pops + 1
    /\ UNCHANGED <<srv_n, srv_p, faulty>>
    /\ UNCHANGED <<mvars, avars>>

\* An operation on the islice object: r.s is the list, r.z the islice.
CommitSlice(op, arg, r) ==
    /\ Commit(op, arg, r.s)
    /\ it' = IF r.z = None THEN it ELSE r.z

\* The list the paged operations act on: a ModelList that find() returned.
HasList == lst # None /\ lst[1].lazy

LenOp ==
    /\ HasList
    /\ pops < MaxPagedOps
    /\ \E f \in Faults : Commit("len", <<>>, list_len(Cur, f))
    /\ UNCHANGED it

GetItem ==
    /\ HasList
    /\ pops < MaxPagedOps
    /\ \E key \in Keys, f \in Faults :
           Commit("getitem", <<key>>, getitem_int(Cur, key, f))
    /\ UNCHANGED it

Iterate ==
    /\ HasList
    /\ pops < MaxPagedOps
    /\ \E f \in Faults : Commit("iterate", <<>>, iterate(Cur, f))
    /\ UNCHANGED it

Slice ==
    /\ HasList
    /\ pops < MaxPagedOps
    /\ \E start \in StartArgs, stop \in StopArgs, step \in StepArgs, f \in Faults :
           CommitSlice("slice", <<step>>, getitem_slice(Cur, start, stop, step, f))

IterateSlice ==
    /\ HasList
    /\ pops < MaxPagedOps
    /\ it # None
    /\ \E f \in Faults : CommitSlice("iterslice", <<>>, islice_run(Cur, it[1], <<>>, f))

\* A fresh ModelList (PagedResource.__init__) over a collection of n items
\* in pages of p.
FreshList(n, p) ==
    /\ srv_n = n
    /\ srv_p = p
    /\ objects = None
    /\ pages = <<>>
    /\ item_count = None
    /\ reqs = [q \in PageNos |-> 0]
    /\ it = None
    /\ pret = [op |-> "", arg |-> <<>>, exc |-> "", val |-> <<>>, nreq |-> 0, mat |-> TRUE]
    /\ pops = 0

\* ================================================================ models.py
\* A scalar Python value is [t |-> its type, v |-> its text]: the text of a
\* str is the string, of an int its digits, of a Decimal str(value), of a
\* date or datetime value.isoformat().
Val(t, v) == [t |-> t, v |-> v]
NoneVal == Val("none", "")
TrueVal == Val("bool", "True")

\* Field names are looked at by prefix and suffix; Words splits a name at its
\* underscores.
Words ==
    [id |-> <<"id">>, name |-> <<"name">>, number |-> <<"number">>,
     your_name |-> <<"your", "name">>, client_name |-> <<"client", "name">>,
     total |-> <<"total">>, due_on |-> <<"due", "on">>,
     updated_at |-> <<"updated", "at">>,
     quantity |-> <<"quantity">>,
     unit_price_without_vat |-> <<"unit", "price", "without", "vat">>,
     lines |-> <<"lines">>, _loaded_lines |-> <<"", "loaded", "lines">>,
     _destroy |-> <<"", "destroy">>]

\* field.startswith(w + '_'), field.endswith('_' + w)
StartsWith(field, w) == Len(Words[field]) > 1 /\ Words[field][1] = w
EndsWith(field, w) == Len(Words[field]) > 1 /\ Words[field][Len(Words[field])] = w

ModelTypes ==
    {"Account", "BankAccount", "Subject", "InvoiceLine", "Invoice", "Expense",
     "Generator", "InvoiceMessage"}
InvoiceLike == {"Invoice", "Expense", "Generator"}

\* hasattr(self.Meta, 'readonly')
HasReadonly(type) == type \in {"Subject", "InvoiceLine", "Invoice", "Expense", "Generator"}

\* Meta.readonly
Readonly(type) ==
    CASE type = "Subject" ->
           {"id", "user_id", "unreliable", "unreliable_checked_at", "html_url", "url",
            "created_at", "updated_at"}
      [] type = "InvoiceLine" ->
           {"id", "unit_price_without_vat", "unit_price_with_vat",
            "total_price_without_vat", "total_vat", "native_total_price_without_vat",
            "native_total_vat", "inventory"}
      [] type = "Invoice" ->
           {"id", "your_name", "your_street", "your_city", "your_zip", "your_country",
            "your_registration_no", "your_vat_no", "your_local_vat_no", "generator_id",
            "token", "status", "due_on", "sent_at", "paid_at", "reminder_sent_at",
            "canceled_at", "uncollectible_at", "locked_at", "webinvoice_seen_on",
            "subtotal", "total", "native_subtotal", "native_total",
            "remaining_amount", "remaining_native_amount", "eet_records",
            "vat_rates_summary", "paid_advances", "payments", "html_url",
            "public_html_url", "url", "pdf_url", "updated_at", "subject_url",
            "created_at"}
      [] type = "Expense" ->
           {"id", "supplier_name", "supplier_street", "supplier_city", "supplier_zip",
            "supplier_country", "supplier_registration_no", "supplier_vat_no",
            "supplier_local_vat_no", "status", "paid_on", "locked_at", "subtotal",
            "total", "native_subtotal", "native_total", "vat_rates_summary", "payments",
            "html_url", "url", "subject_url", "created_at", "updated_at"}
      [] type = "Generator" ->
           {"id", "legacy_bank_details", "subtotal", "total", "native_subtotal",
            "native_total", "html_url", "url", "subject_url", "created_at", "updated_at"}
      [] OTHER -> {}

\* Meta.decimal
DecimalFields(type) ==
    CASE type = "InvoiceLine" -> {"quantity", "unit_price"}
      [] type = "Invoice" ->
           {"exchange_rate", "subtotal", "total", "native_subtotal", "native_total",
            "remaining_amount", "remaining_native_amount"}
      [] type = "Expense" ->
           {"exchange_rate", "subtotal", "total", "native_subtotal", "native_total"}
      [] type = "Generator" ->
           {"exchange_rate", "subtotal", "total", "native_subtotal", "native_total"}
      [] OTHER -> {}

\* dateutil's parse(value), by the isoformat() of the datetime it returns.
parse(s) ==
    CASE s = "2020-01-02T03:04:05Z" -> "2020-01-02T03:04:05+00:00"
      [] s = "2020-01-02T03:04:05+00:00" -> "2020-01-02T03:04:05+00:00"
      [] s = "2020-01-02" -> "2020-01-02T00:00:00"
      [] s = "2020-01-02T00:00:00" -> "2020-01-02T00:00:00"

\* datetime.date(), by the isoformat() of the date.
date_of(dt) ==
    CASE dt = "2020-01-02T03:04:05+00:00" -> "2020-01-02"
      [] dt = "2020-01-02T00:00:00" -> "2020-01-02"

\* str(Decimal(value))
decimal_str(s) ==
    CASE s = "1e1" -> "1E+1"
      [] OTHER -> s

\* "if value and isinstance(value, six.string_types)"
truthy_string(x) == x.t = "str" /\ x.v # ""

\* Model.update, the loop body: the value stored for field.
coerce(type, field, value) ==
    IF ~truthy_string(value) THEN value
    ELSE IF EndsWith(field, "at") THEN Val("datetime", parse(value.v))
    ELSE IF EndsWith(field, "on") \/ EndsWith(field, "due") \/ EndsWith(field, "date")
    THEN Val("date", date_of(parse(value.v)))
    ELSE IF field \in DecimalFields(type) THEN Val("decimal", decimal_str(value.v))
    ELSE value

\* An object is [type, d, lines, loaded]: d is its __dict__ without the keys
\* 'lines' and '_loaded_lines', which are lines and loaded (None: the key
\* is not in the instance's __dict__, and the class attribute is read).
NoFields == <<>>

\* Model.update: self.__dict__.update(fields) with the coerced values.
model_update(o, fields) ==
    [o EXCEPT !.d = [f \in DOMAIN fields \cup DOMAIN o.d |->
                        IF f \in DOMAIN fields THEN coerce(o.type, f, fields[f])
                        ELSE o.d[f]]]

\* InvoiceLine(**kwargs): quantity = Decimal(1), then update(kwargs).
InvoiceLine(kwargs) ==
    model_update([type |-> "InvoiceLine", d |-> [quantity |-> Val("decimal", "1")],
                  lines |-> None, loaded |-> None], kwargs)

\* A line of a 'lines' field is [isline, d]: an InvoiceLine object with
\* __dict__ d (isline) or a dict d.
line_object(l) ==
    IF l.isline
    THEN [type |-> "InvoiceLine", d |-> l.d, lines |-> None, loaded |-> None]
    ELSE InvoiceLine(l.d)

\* "if not isinstance(line, InvoiceLine): if 'id' in line:"
is_loaded(l) == ~l.isline /\ "id" \in DOMAIN l.d

dict_of(l) == l.d

RECURSIVE map_seq(_, _)
map_seq(Op(_), sq) ==
    IF sq = <<>> THEN <<>> ELSE <<Op(Head(sq))>> \o map_seq(Op, Tail(sq))

\* AbstractInvoice.update; a field dictionary is [f, lines]: f the fields
\* other than 'lines', lines the 'lines' value (None: no such key).
invoice_update(o, fields) ==
    IF fields.lines # None
    THEN model_update([o EXCEPT !.lines = Some(map_seq(line_object, fields.lines[1])),
                                !.loaded = Some(map_seq(dict_of,
                                                SelectSeq(fields.lines[1], is_loaded)))],
                      fields.f)
    ELSE model_update(o, fields.f)

update(o, fields) ==
    IF o.type \in InvoiceLike THEN invoice_update(o, fields)
    ELSE model_update(o, fields.f)

\* Model.__init__(**fields)
construct(type, fields) ==
    IF type = "InvoiceLine" THEN InvoiceLine(fields.f)
    ELSE update([type |-> type, d |-> NoFields, lines |-> None, loaded |-> None], fields)

\* Model.is_field_writable
model_is_field_writable(type, field) ==
    IF HasReadonly(type) THEN field \notin Readonly(type) ELSE TRUE

is_field_writable_no_prefix(type, field) == model_is_field_writable(type, field)

\* is_field_writable as the type's class resolves it: AbstractInvoice's for
\* Invoice, Expense and Generator, Model's for the others.
is_field_writable(type, field) ==
    IF type \in InvoiceLike /\ (StartsWith(field, "your") \/ StartsWith(field, "client"))
    THEN FALSE
    ELSE model_is_field_writable(type, field)

\* Model.serialize_field_value for a scalar value
serialize_scalar(value) ==
    IF value.t = "decimal" THEN Val("str", value.v)
    ELSE IF value.t \in {"date", "datetime"} THEN Val("str", value.v)
    ELSE value

\* Model.get_fields over the scalar fields of __dict__
scalar_fields(o) ==
    [f \in {g \in DOMAIN o.d : is_field_writable(o.type, g)} |-> serialize_scalar(o.d[f])]

\* l.get('id') on a serialized line
get_id(l) == IF "id" \in DOMAIN l THEN l["id"] ELSE NoneVal

\* The first index >= cur of ids holding x, or 0: ids is a map() iterator,
\* and "x in ids" consumes it up to the match, or to its end.
RECURSIVE find_from(_, _, _)
find_from(ids, cur, x) ==
    IF cur > Len(ids) THEN 0
    ELSE IF ids[cur] = x THEN cur
    ELSE find_from(ids, cur + 1, x)

remote_missing_inverted(ids, cur, rid) == find_from(ids, cur, rid) # 0

\* "remote['id'] not in ids"
remote_missing(ids, cur, rid) == find_from(ids, cur, rid) = 0

\* Where the iterator stands after "x in ids".
cursor_after(ids, cur, x) ==
    IF find_from(ids, cur, x) = 0 THEN Len(ids) + 1 ELSE find_from(ids, cur, x) + 1

\* AbstractInvoice.serialize_field_value, the loop over self._loaded_lines:
\* for each loaded line, whether it is flagged and appended.
RECURSIVE destroy_flags(_, _, _)
destroy_flags(ids, cur, remotes) ==
    IF remotes = <<>> THEN <<>>
    ELSE <<remote_missing(ids, cur, Head(remotes)["id"])>>
         \o destroy_flags(ids, cursor_after(ids, cur, Head(remotes)["id"]), Tail(remotes))

\* remote['_destroy'] = True
with_destroy(remote) ==
    [f \in DOMAIN remote \cup {"_destroy"} |->
        IF f = "_destroy" THEN TrueVal ELSE remote[f]]

\* self.lines and self._loaded_lines: the instance's attribute, or the class's.
lines_of(o, class_lines) == IF o.lines # None THEN o.lines[1] ELSE class_lines
loaded_of(o) == IF o.loaded # None THEN o.loaded[1] ELSE <<>>

serialized_lines(o) == map_seq(scalar_fields, o.lines[1])

flags_of(o) ==
    destroy_flags(map_seq(get_id, serialized_lines(o)), 1, loaded_of(o))

\* self._loaded_lines after get_fields(): the flagged dicts carry '_destroy'.
loaded_after(o) ==
    [j \in 1..Len(loaded_of(o)) |->
        IF flags_of(o)[j] THEN with_destroy(loaded_of(o)[j]) ELSE loaded_of(o)[j]]

flagged(o) ==
    LET idx == {j \in 1..Len(loaded_of(o)) : flags_of(o)[j]}
        RECURSIVE pick(_)
        pick(j) == IF j > Len(loaded_of(o)) THEN <<>>
                   ELSE IF j \in idx THEN <<with_destroy(loaded_of(o)[j])>> \o pick(j + 1)
                   ELSE pick(j + 1)
    IN  pick(1)

\* get_fields() on an object whose class is a model type: [d, lines, loaded],
\* the output's scalar fields, its 'lines' and its '_loaded_lines' entries
\* (None: no such key).
get_fields(o) ==
    [d |-> scalar_fields(o),
     lines |-> IF o.lines # None /\ is_field_writable(o.type, "lines")
               THEN Some(serialized_lines(o) \o flagged(o)) ELSE None,
     loaded |-> IF o.loaded # None /\ is_field_writable(o.type, "_loaded_lines")
                THEN Some(IF o.lines # None THEN loaded_after(o) ELSE o.loaded[1])
                ELSE None]

\* The object after get_fields(): serializing 'lines' writes '_destroy' into
\* the dicts of self._loaded_lines.
after_get_fields(o) ==
    IF o.lines # None /\ o.loaded # None /\ is_field_writable(o.type, "lines")
    THEN [o EXCEPT !.loaded = Some(loaded_after(o))]
    ELSE o

\* ---------------------------------------------------- model operations
\* What the server sends for a field, and what a caller assigns to it.
RawField ==
    [id |-> Val("int", "7"), name |-> Val("str", "ACME"),
     your_name |-> Val("str", "Me"), client_name |-> Val("str", "Cli"),
     total |-> Val("str", "10.0"), due_on |-> Val("str", "2020-01-02"),
     updated_at |-> Val("str", "2020-01-02T03:04:05Z")]

LocalField ==
    [id |-> Val("int", "9"), name |-> Val("str", "Local"),
     your_name |-> Val("str", "You"), client_name |-> Val("str", "Them"),
     total |-> Val("decimal", "99.0"), due_on |-> Val("date", "2020-01-02"),
     updated_at |-> Val("str", "now")]

FieldNames == DOMAIN RawField

\* The lines the server sends (R1, R2: with a server id) and a caller builds.
R0 == [name |-> Val("str", "c")]
R1 == [id |-> Val("int", "1"), name |-> Val("str", "a"),
       unit_price_without_vat |-> Val("str", "5.0")]
R2 == [id |-> Val("int", "2"), name |-> Val("str", "b"), quantity |-> Val("str", "2.0")]
RawLine(r) == [isline |-> FALSE, d |-> r]
LocalLine == InvoiceLine([name |-> Val("str", "x")])
LineArg(o) == [isline |-> TRUE, d |-> o.d]

FieldSets == {{}, {"name"}, {"id", "name"}, FieldNames}
LinesValues ==
    {None, Some(<<>>), Some(<<RawLine(R1), RawLine(R2)>>),
     Some(<<RawLine(R0), RawLine(R1)>>), Some(<<LineArg(LocalLine)>>)}

\* Field dictionaries a model of the type is constructed from or updated with.
FieldDicts(type) ==
    {[f |-> [g \in fs |-> RawField[g]], lines |-> ls] :
        fs \in FieldSets, ls \in IF type \in InvoiceLike THEN LinesValues ELSE {None}}

UpdateDicts(type) ==
    {fd \in FieldDicts(type) :
        /\ DOMAIN fd.f \in {{"name"}, FieldNames}
        /\ fd.lines \in {None, Some(<<RawLine(R0), RawLine(R1)>>)}}

Inst == 1..2

NoCall == [inst |-> 0]

RemoveAt(sq, k) == [j \in 1..(Len(sq) - 1) |-> IF j < k THEN sq[j] ELSE sq[j + 1]]

\* setattr(model, f, v)
SetAttr(i) ==
    /\ mops < MaxModelOps
    /\ \E f \in FieldNames :
           obj' = [obj EXCEPT ![i].d = [g \in DOMAIN @ \cup {f} |->
                                           IF g = f THEN LocalField[f] ELSE @[g]]]
    /\ mops' = mops + 1
    /\ UNCHANGED <<cls_lines, mout, pvars, avars>>

\* del model.lines[k - 1]
DelLine(i) ==
    /\ mops < MaxModelOps
    /\ obj[i].type \in InvoiceLike
    /\ \E k \in 1..Len(lines_of(obj[i], cls_lines)) :
           IF obj[i].lines # None
           THEN /\ obj' = [obj EXCEPT ![i].lines = Some(RemoveAt(@[1], k))]
                /\ UNCHANGED cls_lines
           ELSE /\ cls_lines' = RemoveAt(cls_lines, k)
                /\ UNCHANGED obj
    /\ mops' = mops + 1
    /\ UNCHANGED <<mout, pvars, avars>>

\* model.lines.append(InvoiceLine(name='x'))
AppendLine(i) ==
    /\ mops < MaxModelOps
    /\ obj[i].type \in InvoiceLike
    /\ Len(lines_of(obj[i], cls_lines)) < MaxLines
    /\ IF obj[i].lines # None
       THEN /\ obj' = [obj EXCEPT ![i].lines = Some(Append(@[1], LocalLine))]
            /\ UNCHANGED cls_lines
       ELSE /\ cls_lines' = Append(cls_lines, LocalLine)
            /\ UNCHANGED obj
    /\ mops' = mops + 1
    /\ UNCHANGED <<mout, pvars, avars>>

\* model.update(fields)
Update(i) ==
    /\ mops < MaxModelOps
    /\ \E fd \in UpdateDicts(obj[i].type) : obj' = [obj EXCEPT ![i] = update(@, fd)]
    /\ mops' = mops + 1
    /\ UNCHANGED <<cls_lines, mout, pvars, avars>>

\* model.get_fields()
GetFields(i) ==
    /\ mops < MaxModelOps
    /\ mout' = [inst |-> i, pre |-> obj[i], live |-> lines_of(obj[i], cls_lines),
                out |-> get_fields(obj[i])]
    /\ obj' = [obj EXCEPT ![i] = after_get_fields(@)]
    /\ mops' = mops + 1
    /\ UNCHANGED <<cls_lines, pvars, avars>>

\* Instance 1 is a model of the type constructed from the field dictionary,
\* instance 2 an Invoice() constructed without fields.
Constructed(type, fd) ==
    /\ obj = [i \in Inst |-> IF i = 1 THEN construct(type, fd)
                             ELSE construct("Invoice", [f |-> NoFields, lines |-> None])]
    /\ cls_lines = <<>>
    /\ mout = NoCall
    /\ mops = 0

\* =================================================================== api.py
\* A response is [status, body]; a body is [kind, errors, fd]: kind "none"
\* (r.json() raised: no JSON), "list" or "object", errors whether the object
\* has an "errors" key, fd the object's fields as a field dictionary.
NoDict == [f |-> NoFields, lines |-> None]
NoBody == [kind |-> "none", errors |-> FALSE, fd |-> NoDict]
ListBody == [kind |-> "list", errors |-> FALSE, fd |-> NoDict]
ErrorsBody == [kind |-> "object", errors |-> TRUE, fd |-> NoDict]
ObjectBody(fd) == [kind |-> "object", errors |-> FALSE, fd |-> fd]

\* requests' Response.raise_for_status(): HTTPError for a 4xx or 5xx status.
raise_for_status(status) == IF 400 <= status /\ status < 600 THEN "HTTPError" ELSE ""

\* 'if json_result and "errors" in json_result'
has_errors(body) == body.kind = "object" /\ body.errors

\* Fakturoid._make_request: [exc, ret, sent]: the exception raised ("": none),
\* the value returned (None, or the response with its 'json') and the number
\* of requests sent.  tok is self.token, resp what the server answers.
make_request(tok, success_status, resp) ==
    IF tok = None THEN [exc |-> "AttributeError", ret |-> None, sent |-> 0]
    ELSE IF resp.status = success_status
    THEN [exc |-> "", ret |-> Some(resp.body), sent |-> 1]
    ELSE IF has_errors(resp.body) THEN [exc |-> "ValueError", ret |-> None, sent |-> 1]
    ELSE [exc |-> raise_for_status(resp.status), ret |-> None, sent |-> 1]

\* The success status _get, _post, _put and _delete pass to _make_request.
SuccessStatus(method) ==
    CASE method = "get" -> 200
      [] method = "post" -> 201
      [] method = "put" -> 200
      [] method = "delete" -> 204

helper(tok, method, resp) == make_request(tok, SuccessStatus(method), resp)

\* Fakturoid.__init__, given the token endpoint's response [status, token]
\* (token None: the body is no JSON or has no 'access_token'): the token the
\* client holds and the exception raised.
init_client(resp) ==
    IF resp.token # None THEN [exc |-> "", token |-> resp.token]
    ELSE [exc |-> raise_for_status(resp.status), token |-> None]

\* bool(value)
truthy(x) ==
    CASE x.t = "none" -> FALSE
      [] x.t = "str" -> x.v # ""
      [] x.t = "int" -> x.v # "0"
      [] x.t = "bool" -> x.v = "True"
      [] OTHER -> TRUE

\* model.id: the instance's attribute, or the class attribute Model.id = None.
id_of(o) == IF "id" \in DOMAIN o.d THEN o.d["id"] ELSE NoneVal

\* The endpoint of the type's CrudModelApi.
Endpoint(type) ==
    CASE type = "Subject" -> "subjects"
      [] type = "Invoice" -> "invoices"
      [] type = "Expense" -> "expenses"
      [] type = "Generator" -> "generators"

CrudTypes == {"Subject", "Invoice", "Expense", "Generator"}

save_method_always_post(o) == "post"

\* CrudModelApi.save: "if model.id:" _put, else _post.
save_method(o) == IF truthy(id_of(o)) THEN "put" ELSE "post"

\* The request save sends: '<endpoint>/<id>' for a PUT, '<endpoint>' for a POST.
save_request(o) ==
    [method |-> save_method(o),
     endpoint |-> IF save_method(o) = "put" THEN <<Endpoint(o.type), id_of(o).v>>
                  ELSE <<Endpoint(o.type)>>,
     data |-> get_fields(o)]

\* model.update(result['json']) with r what _put or _post returned or raised;
\* o is the model after get_fields().  [exc, o]
merge_response(o, r) ==
    IF r.exc # "" THEN [exc |-> r.exc, o |-> o]
    ELSE IF r.ret = None THEN [exc |-> "TypeError", o |-> o]
    ELSE IF r.ret[1].kind = "none"
    THEN [exc |-> IF o.type \in InvoiceLike THEN "TypeError" ELSE "AttributeError", o |-> o]
    ELSE IF r.ret[1].kind = "list" THEN [exc |-> "AttributeError", o |-> o]
    ELSE [exc |-> "", o |-> update(o, r.ret[1].fd)]

\* InvoicesApi.EVENTS, ExpensesApi.EVENTS
EVENTS(kind) ==
    IF kind = "invoices"
    THEN {"mark_as_sent", "deliver", "pay", "pay_proforma", "pay_partial_proforma",
          "remove_payment", "deliver_reminder", "cancel", "undo_cancel"}
    ELSE {"remove_payment", "deliver", "pay", "lock", "unlock"}

\* self.EVENT_ARGS.get(event, set())
allowed_args(kind, event) ==
    IF event # "pay" THEN {}
    ELSE IF kind = "invoices" THEN {"paid_at", "paid_amount"}
    ELSE {"paid_on", "paid_amount", "variable_symbol", "bank_account_id"}

args_allowed_unless_empty(names, allowed) == allowed = {} \/ names \subseteq allowed

\* set(kwargs.keys()).issubset(allowed_args)
args_allowed(names, allowed) == names \subseteq allowed

\* The argument fire() requires to be a date.
DateArg(kind) == IF kind = "invoices" THEN "paid_at" ELSE "paid_on"

\* isinstance(value, date), isinstance(value, (datetime, date))
is_date(x) == x.t \in {"date", "datetime"}

\* isinstance(value, int)
is_int(x) == x.t \in {"int", "bool"}

\* InvoicesApi.fire and ExpensesApi.fire up to the POST: the exception the
\* validation raises ("": none).
fire_check(kind, id, event, kwargs) ==
    IF ~is_int(id) THEN "TypeError"
    ELSE IF event \notin EVENTS(kind) THEN "ValueError"
    ELSE IF ~args_allowed(DOMAIN kwargs, allowed_args(kind, event)) THEN "ValueError"
    ELSE IF DateArg(kind) \in DOMAIN kwargs /\ ~is_date(kwargs[DateArg(kind)])
    THEN "TypeError"
    ELSE ""

\* fire(): the validation, then self.session._post('<kind>/<id>/fire', ...).
fire(tok, kind, id, event, kwargs, resp) ==
    IF fire_check(kind, id, event, kwargs) # ""
    THEN [exc |-> fire_check(kind, id, event, kwargs), ret |-> None, sent |-> 0]
    ELSE helper(tok, "post", resp)

\* The keyword arguments each find() declares.
FindArgs(kind) ==
    CASE kind = "subjects" -> {"since", "updated_since", "custom_id"}
      [] kind = "invoices" ->
           {"proforma", "subject_id", "since", "until", "updated_since", "updated_until",
            "number", "status", "custom_id"}
      [] kind = "expenses" ->
           {"subject_id", "since", "updated_since", "number", "status", "custom_id",
            "variable_symbol"}
      [] kind = "generators" -> {"recurring", "subject_id", "since"}

DateFilters == {"since", "until", "updated_since", "updated_until"}

\* "if since: if not isinstance(since, (datetime, date)): raise TypeError" and
\* "if subject_id: if not isinstance(subject_id, int): raise TypeError"
filter_rejected(name, value) ==
    /\ truthy(value)
    /\ \/ name \in DateFilters /\ ~is_date(value)
       \/ name = "subject_id" /\ ~is_int(value)

\* find() up to its return statement: the exception raised; a keyword the
\* method does not declare is Python's TypeError.
find_check(kind, args) ==
    IF ~(DOMAIN args \subseteq FindArgs(kind)) THEN "TypeError"
    ELSE IF \E a \in DOMAIN args : filter_rejected(a, args[a]) THEN "TypeError"
    ELSE ""

\* The names of the query parameters find() builds.
find_params(args) == {a \in DOMAIN args : truthy(args[a])}

\* ModelApi.unpack(response) in CrudModelApi.find, with r what _get returned
\* or raised: the exception raised.
unpack_exc(r) ==
    IF r.exc # "" THEN r.exc
    ELSE IF r.ret = None THEN "TypeError"
    ELSE IF r.ret[1].kind = "none" THEN "TypeError"
    ELSE ""

\* find(): [exc, sent, lazy]: subjects, invoices and expenses return a
\* ModelList; GeneratorsApi.find returns super().find(params, endpoint), which
\* is CrudModelApi.find: a GET and the unpacked models.
find(tok, kind, args, resp) ==
    IF find_check(kind, args) # ""
    THEN [exc |-> find_check(kind, args), sent |-> 0, lazy |-> FALSE]
    ELSE IF kind = "generators"
    THEN [exc |-> unpack_exc(helper(tok, "get", resp)),
          sent |-> helper(tok, "get", resp).sent, lazy |-> FALSE]
    ELSE [exc |-> "", sent |-> 0, lazy |-> TRUE]

\* ------------------------------------------------------ client operations
Statuses == {200, 201, 204, 422, 500}
Methods == {"get", "post", "put", "delete"}
Tokens == {"t1", "t2"}

\* The field dictionaries the server answers a save with.
ResponseDicts(type) ==
    {fd \in FieldDicts(type) :
        /\ DOMAIN fd.f \in {{"id", "name"}, FieldNames}
        /\ fd.lines \in {None, Some(<<RawLine(R1), RawLine(R2)>>)}}

Bodies(type) == {NoBody, ListBody, ErrorsBody} \cup {ObjectBody(fd) : fd \in ResponseDicts(type)}

Record(r) ==
    /\ sent' = sent + r.sent
    /\ aops' = aops + 1

\* Fakturoid(slug, email, client_id, client_secret)
NewClient ==
    /\ client = "none"
    /\ \E status \in {200, 401, 500}, tok \in {None} \cup {Some(t) : t \in Tokens} :
           /\ token' = init_client([status |-> status, token |-> tok]).token
           /\ client' = IF init_client([status |-> status, token |-> tok]).exc = ""
                        THEN "built" ELSE "failed"
           /\ aret' = [op |-> "init", status |-> status, given |-> tok,
                       exc |-> init_client([status |-> status, token |-> tok]).exc]
    /\ exchanges' = exchanges + 1
    /\ UNCHANGED <<sent, last_req, lst, aops, pvars, mvars>>

RequestDone(method, resp, r) ==
    /\ aret' = [op |-> "request", method |-> method, status |-> resp.status,
                errors |-> has_errors(resp.body), exc |-> r.exc, ret |-> r.ret,
                nsent |-> r.sent]
    /\ last_req' = IF r.sent > 0 THEN Some([method |-> method, endpoint |-> <<"account">>])
                   ELSE last_req
    /\ Record(r)

\* session._get / _post / _put / _delete on an endpoint
Request ==
    /\ client = "built"
    /\ aops < MaxApiOps
    /\ \E method \in Methods, status \in Statuses, body \in {NoBody, ErrorsBody, ObjectBody(NoDict)} :
           RequestDone(method, [status |-> status, body |-> body],
                       helper(token, method, [status |-> status, body |-> body]))
    /\ UNCHANGED <<client, token, exchanges, lst, pvars, mvars>>

SaveDone(o, resp, r, m) ==
    /\ aret' = [op |-> "save", pre |-> o, status |-> resp.status, body |-> resp.body,
                exc |-> m.exc, nsent |-> r.sent]
    /\ last_req' = IF r.sent > 0
                   THEN Some([method |-> save_request(o).method,
                              endpoint |-> save_request(o).endpoint])
                   ELSE last_req
    /\ obj' = [obj EXCEPT ![1] = m.o]
    /\ Record(r)

SaveWith(o, resp, r) == SaveDone(o, resp, r, merge_response(after_get_fields(o), r))

\* fa.save(model) for a model of a CRUD type
Save ==
    /\ client = "built"
    /\ aops < MaxApiOps
    /\ obj[1].type \in CrudTypes
    /\ \E status \in Statuses, body \in Bodies(obj[1].type) :
           SaveWith(obj[1], [status |-> status, body |-> body],
                    helper(token, save_method(obj[1]), [status |-> status, body |-> body]))
    /\ UNCHANGED <<client, token, exchanges, lst, cls_lines, mout, mops, pvars>>

\* The arguments callers pass to fire() and find().
Ids == {Val("int", "7"), Val("str", "7")}
EventArgs == {"pay", "mark_as_sent", "lock", "bogus"}
Kwargs ==
    {NoFields,
     [paid_at |-> Val("date", "2020-01-02")], [paid_at |-> Val("str", "2020-01-02")],
     [paid_on |-> Val("date", "2020-01-02")], [paid_on |-> Val("str", "2020-01-02")],
     [paid_amount |-> Val("decimal", "10.0")], [note |-> Val("str", "x")],
     [paid_at |-> Val("datetime", "2020-01-02T00:00:00"), note |-> Val("str", "x")]}

FilterValues ==
    {Val("date", "2020-01-02"), Val("datetime", "2020-01-02T00:00:00"),
     Val("str", "2020-01-02"), Val("str", ""), Val("int", "5"), Val("int", "0")}

Filters ==
    {NoFields}
    \cup {(a :> v) : a \in DateFilters \cup {"subject_id"}, v \in FilterValues}
    \cup {[since |-> Val("date", "2020-01-02"), until |-> Val("str", "2020-01-02")]}

FireDone(kind, id, event, kwargs, resp, r) ==
    /\ aret' = [op |-> "fire", kind |-> kind, id |-> id, event |-> event,
                kwargs |-> kwargs, exc |-> r.exc, nsent |-> r.sent]
    /\ last_req' = IF r.sent > 0 THEN Some([method |-> "post", endpoint |-> <<kind, id.v, "fire">>])
                   ELSE last_req
    /\ Record(r)

\* fa.fire_invoice_event(id, event, **kwargs), fa.fire_expense_event(...)
Fire ==
    /\ client = "built"
    /\ aops < MaxApiOps
    /\ \E kind \in {"invoices", "expenses"}, id \in Ids, event \in EventArgs,
          kwargs \in Kwargs, status \in {201, 422} :
           FireDone(kind, id, event, kwargs, [status |-> status, body |-> NoBody],
                    fire(token, kind, id, event, kwargs, [status |-> status, body |-> NoBody]))
    /\ UNCHANGED <<client, token, exchanges, lst, pvars, mvars>>

FindDone(kind, args, r) ==
    /\ aret' = [op |-> "find", kind |-> kind, args |-> args, exc |-> r.exc,
                nsent |-> r.sent, params |-> find_params(args)]
    /\ last_req' = IF r.sent > 0 THEN Some([method |-> "get", endpoint |-> <<kind>>])
                   ELSE last_req
    /\ lst' = IF r.exc = "" THEN Some([lazy |-> r.lazy]) ELSE lst
    /\ Record(r)

\* fa.subjects(...), fa.invoices(...), fa.expenses(...), fa.generators(...);
\* the list returned is a new one: no page loaded, nothing requested.
Find ==
    /\ client = "built"
    /\ aops < MaxApiOps
    /\ \E kind \in {"subjects", "invoices", "expenses", "generators"}, args \in Filters,
          resp \in {[status |-> 200, body |-> ListBody], [status |-> 500, body |-> NoBody]} :
           FindDone(kind, args, find(token, kind, args, resp))
    /\ objects' = None
    /\ pages' = <<>>
    /\ item_count' = None
    /\ reqs' = [q \in PageNos |-> 0]
    /\ it' = None
    /\ pops' = 0
    /\ UNCHANGED <<client, token, exchanges, srv_n, srv_p, faulty, pret, mvars>>

\* A client constructed from a token response that carries the token.
BuiltClient ==
    /\ client = "built"
    /\ token = Some("t1")
    /\ exchanges = 1
    /\ sent = 0
    /\ last_req = None
    /\ aret = [op |-> ""]
    /\ aops = 0

NoClient ==
    /\ client = "none"
    /\ token = None
    /\ exchanges = 0
    /\ sent = 0
    /\ last_req = None
    /\ aret = [op |-> ""]
    /\ aops = 0

\* ------------------------------------------------------- specifications
NoModel == Constructed("Invoice", NoDict)

\* The paged list a find() returned, over a transport that does not raise.
InitPaging ==
    /\ \E n \in 0..MaxN, p \in 1..MaxP : FreshList(n, p)
    /\ faulty = FALSE
    /\ NoModel
    /\ BuiltClient
    /\ lst = Some([lazy |-> TRUE])

NextPaging ==
    \/ LenOp
    \/ GetItem
    \/ Iterate
    \/ Slice
    \/ IterateSlice

SpecPaging == InitPaging /\ [][NextPaging]_vars

\* The paged list over a transport that may raise during a page request.
InitFaulty ==
    /\ \E n \in 0..MaxN, p \in 1..MaxP : FreshList(n, p)
    /\ faulty = TRUE
    /\ NoModel
    /\ BuiltClient
    /\ lst = Some([lazy |-> TRUE])

NextFaulty ==
    \/ LenOp
    \/ GetItem
    \/ Iterate

SpecFaulty == InitFaulty /\ [][NextFaulty]_vars

\* The model layer: one object, constructed, then mutated and serialized.
InitModel ==
    /\ \E type \in ModelTypes : \E fd \in FieldDicts(type) : Constructed(type, fd)
    /\ FreshList(0, 1)
    /\ faulty = FALSE
    /\ BuiltClient
    /\ lst = None

NextModel ==
    \/ SetAttr(1)
    \/ DelLine(1)
    \/ AppendLine(1)
    \/ Update(1)
    \/ GetFields(1)

SpecModel == InitModel /\ [][NextModel]_vars

\* The client after its construction, and a model of a CRUD type.
Init ==
    /\ BuiltClient
    /\ lst = None
    /\ \E type \in CrudTypes : \E fd \in ResponseDicts(type) \cup {[f |-> [g \in {"name"} |-> RawField[g]], lines |-> None]} :
           Constructed(type, fd)
    /\ FreshList(0, 1)
    /\ faulty = FALSE

Next ==
    \/ Request
    \/ Save

Spec == Init /\ [][Next]_vars

\* The client after its construction, and the events fired through it.
InitFire ==
    /\ BuiltClient
    /\ lst = None
    /\ NoModel
    /\ FreshList(0, 1)
    /\ faulty = FALSE

NextFire ==
    \/ Fire
    \/ Request

SpecFire == InitFire /\ [][NextFire]_vars

\* find() and the use of the list it returned.
InitFind ==
    /\ BuiltClient
    /\ lst = None
    /\ NoModel
    /\ FreshList(3, 2)
    /\ faulty = FALSE

NextFind ==
    \/ Find
    \/ LenOp
    \/ GetItem
    \/ Iterate
    \/ Slice
    \/ IterateSlice

SpecFind == InitFind /\ [][NextFind]_vars

\* The construction of a client, and its requests.
InitAuth ==
    /\ NoClient
    /\ lst = None
    /\ NoModel
    /\ FreshList(0, 1)
    /\ faulty = FALSE

NextAuth ==
    \/ NewClient
    \/ Request

SpecAuth == InitAuth /\ [][NextAuth]_vars

\* ------------------------------------------------------------ claims: paging
ServerItems == [k \in 1..srv_n |-> k]

\* C1: for a collection of N items served in pages of P, a full iteration
\* yields exactly the N items in server order and len() returns N; an
\* iteration or len() that materializes the list sends one request per
\* non-empty page plus one (the first empty page), and one that finds the list
\* materialized sends none.
C1_FullIteration ==
    /\ pret.op = "iterate" => pret.exc = "" /\ pret.val = ServerItems
    /\ pret.op = "len" => pret.exc = "" /\ pret.val = <<srv_n>>
    /\ pret.op \in {"iterate", "len"} =>
           /\ objects = Some(ServerItems)
           /\ item_count = Some(srv_n)
           /\ pret.nreq = IF pret.mat THEN NonEmptyPages(srv_n, srv_p) + 1 ELSE 0

\* A fresh list over 3 items in pages of 2 (a full and a partial page) was
\* iterated: 3 items, 3 requests.
C1_Witness ==
    /\ pret.op = "iterate" /\ pret.mat /\ pops = 1
    /\ srv_n = 3 /\ srv_p = 2
    /\ pret.val = <<1, 2, 3>> /\ pret.nreq = 3

\* C2: over any sequence of operations on one list, each page number is
\* requested from the server at most once, also when the collection is empty.
C2_EachPageRequestedOnce == \A n \in PageNos : reqs[n] <= 1

\* C12: on a fully materialized list of N >= 1 items, list[-k] is list[N-k]
\* for 1 <= k <= N (the item at server position N-k+1), list[-k] raises
\* IndexError for k > N, and list[i] raises IndexError for i >= N.
C12_NegativeIndex ==
    pret.op = "getitem" /\ srv_n >= 1 /\ objects = Some(ServerItems) =>
        /\ 0 <= pret.arg[1] /\ pret.arg[1] < srv_n =>
               pret.exc = "" /\ pret.val = <<ServerItems[pret.arg[1] + 1]>>
        /\ pret.arg[1] < 0 /\ 0 - pret.arg[1] <= srv_n =>
               pret.exc = "" /\ pret.val = <<ServerItems[srv_n + pret.arg[1] + 1]>>
        /\ pret.arg[1] < 0 /\ 0 - pret.arg[1] > srv_n => pret.exc = "IndexError"
        /\ pret.arg[1] >= srv_n => pret.exc = "IndexError"

\* list[-2] on a list of 3 items that an earlier call materialized: item 2.
C12_Witness ==
    /\ pret.op = "getitem" /\ ~pret.mat
    /\ srv_n = 3 /\ objects = Some(ServerItems)
    /\ pret.arg = <<0 - 2>>
    /\ pret.exc = "" /\ pret.val = <<2>>

\* list[i], list[i+step], ... below stop, for a list holding the server's items.
RECURSIVE SliceItems(_, _, _)
SliceItems(i, stop, step) ==
    IF i >= stop THEN <<>> ELSE <<ServerItems[i + 1]>> \o SliceItems(i + step, stop, step)

\* C13: taking a slice requests no page beyond those holding the items below
\* its stop (and one more request to find the end); the first pass over the
\* slice yields list[start], list[start+step], ... below stop, and a pass that
\* follows a pass yields the same elements again.
C13_SliceLazyRestartable ==
    [][/\ pret'.op = "slice" /\ pret'.exc = "" /\ pops' = pops + 1 =>
              pret'.nreq <= NonEmptyPages(it'[1].stop, srv_p) + 1
       /\ pret.op = "slice" /\ pret.exc = ""
          /\ pret'.op = "iterslice" /\ pret'.exc = "" /\ pops' = pops + 1 =>
              pret'.val = SliceItems(it[1].nxt, it[1].stop, it[1].step)
       /\ pret.op = "iterslice" /\ pret.exc = ""
          /\ pret'.op = "iterslice" /\ pret'.exc = "" /\ pops' = pops + 1 =>
              pret'.val = pret.val]_vars

\* C14: also after a page request failed while the list was being
\* materialized, a len(), an index or an iteration that returns reflects all
\* N server items: len() is N, list[i] is the item at server position i for
\* 0 <= i < N, and an iteration yields the N items.
C14_FailureNotTreatedComplete ==
    pret.exc = "" =>
        /\ pret.op = "len" => pret.val = <<srv_n>>
        /\ pret.op = "iterate" => pret.val = ServerItems
        /\ pret.op = "getitem" /\ 0 <= pret.arg[1] /\ pret.arg[1] < srv_n =>
               pret.val = <<ServerItems[pret.arg[1] + 1]>>

\* ------------------------------------------------------- claims: models
\* The top level of the last get_fields() output holds no field of the type's
\* read-only list and, for an invoice-like model, no your_/client_ field.
TopLevelWritable ==
    \A f \in DOMAIN mout.out.d :
        /\ f \notin Readonly(mout.pre.type)
        /\ mout.pre.type \in InvoiceLike => f \notin {"your_name", "client_name"}

\* C4 (as stated): get_fields() holds no read-only field and, for invoice-like
\* models, no your_/client_ field, at every nesting level: no entry of the
\* serialized 'lines' holds a field of InvoiceLine's read-only list.
C4_NoReadonlyAtAnyLevel ==
    mout.inst # 0 =>
        /\ TopLevelWritable
        /\ mout.out.lines # None =>
               \A k \in 1..Len(mout.out.lines[1]) :
                   DOMAIN mout.out.lines[1][k] \cap Readonly("InvoiceLine") = {}

\* C4 (amended): the top level of get_fields() holds no read-only and no
\* your_/client_ field, and the entries of 'lines' that serialize the live
\* InvoiceLine objects hold no field of InvoiceLine's read-only list; the
\* entries appended for the loaded lines are the server's dicts, 'id' included.
C4_NoReadonlyTopAndLiveLines ==
    mout.inst # 0 =>
        /\ TopLevelWritable
        /\ mout.out.lines # None =>
               /\ Len(mout.out.lines[1]) >= Len(mout.live)
               /\ \A k \in 1..Len(mout.live) :
                      DOMAIN mout.out.lines[1][k] \cap Readonly("InvoiceLine") = {}

\* An Invoice holding id, your_name and a locally assigned client_name, with a
\* live line that holds an id, was serialized.
C4_Witness ==
    /\ mout.inst # 0
    /\ mout.pre.type = "Invoice"
    /\ {"id", "your_name", "client_name", "name"} \subseteq DOMAIN mout.pre.d
    /\ mout.pre.d["client_name"] = LocalField["client_name"]
    /\ "name" \in DOMAIN mout.out.d
    /\ mout.out.lines # None
    /\ \E k \in 1..Len(mout.live) : "id" \in DOMAIN mout.live[k].d

\* Whether a live line of the serialized model holds the id.
LiveHasId(rid) ==
    \E k \in 1..Len(mout.live) :
        "id" \in DOMAIN mout.live[k].d /\ mout.live[k].d["id"] = rid

\* Whether the serialized 'lines' hold an entry with the id and _destroy = true.
DestroyedInOutput(rid) ==
    /\ mout.out.lines # None
    /\ \E k \in 1..Len(mout.out.lines[1]) :
           /\ {"id", "_destroy"} \subseteq DOMAIN mout.out.lines[1][k]
           /\ mout.out.lines[1][k]["id"] = rid
           /\ mout.out.lines[1][k]["_destroy"] = TrueVal

\* C9: every line loaded from the server with an id and no longer in the live
\* 'lines' list is in the serialized 'lines' with its id and _destroy = true.
C9_RemovedLinesDestroyed ==
    mout.inst # 0 /\ mout.pre.type \in InvoiceLike =>
        \A j \in 1..Len(loaded_of(mout.pre)) :
            ~LiveHasId(loaded_of(mout.pre)[j]["id"]) =>
                DestroyedInOutput(loaded_of(mout.pre)[j]["id"])

\* An invoice loaded with lines 1 and 2, line 1 removed, was serialized.
C9_Witness ==
    /\ mout.inst # 0
    /\ mout.pre.type = "Invoice"
    /\ Len(loaded_of(mout.pre)) = 2
    /\ Len(mout.live) = 1
    /\ LiveHasId(Val("int", "2"))
    /\ ~LiveHasId(Val("int", "1"))
    /\ DestroyedInOutput(Val("int", "1"))

\* C15: a loaded line whose id a live line of the model still holds is not
\* in the get_fields() output with _destroy = true; serializing a freshly
\* loaded invoice flags no line.
C15_LiveLinesNotDestroyed ==
    mout.inst # 0 /\ mout.pre.type \in InvoiceLike =>
        \A j \in 1..Len(loaded_of(mout.pre)) :
            LiveHasId(loaded_of(mout.pre)[j]["id"]) =>
                ~DestroyedInOutput(loaded_of(mout.pre)[j]["id"])

\* C16: operations on instance 1 (appending a line among them) leave the
\* 'lines' of instance 2, an Invoice() never appended to, empty; and a line
\* appended to a model is in the 'lines' of that model's get_fields() output.
C16_LinesIndependent ==
    /\ lines_of(obj[2], cls_lines) = <<>>
    /\ mout.inst # 0 /\ mout.pre.type \in InvoiceLike =>
           \A k \in 1..Len(mout.live) :
               mout.live[k] = LocalLine =>
                   /\ mout.out.lines # None
                   /\ \E j \in 1..Len(mout.out.lines[1]) :
                          /\ DOMAIN mout.out.lines[1][j] = {"name", "quantity"}
                          /\ mout.out.lines[1][j]["name"] = LocalLine.d["name"]

\* type(m)(**fields) for the dictionary out that get_fields() returned:
\* AbstractInvoice.update rebuilds lines and _loaded_lines from out's 'lines',
\* then Model.update stores out's '_loaded_lines' entry over the latter.
from_fields(type, out) ==
    [construct(type, [f |-> out.d,
                      lines |-> IF out.lines = None \/ type \notin InvoiceLike THEN None
                                ELSE Some(map_seq(RawLine, out.lines[1]))])
        EXCEPT !.loaded = IF out.loaded = None THEN @ ELSE out.loaded]

\* C11: building a model of the same type from m.get_fields() and calling
\* get_fields() on it yields the dictionary m.get_fields() returned, also for
\* invoice-like models that hold lines loaded from the server.
C11_RoundTrip ==
    mout.inst # 0 => get_fields(from_fields(mout.pre.type, mout.out)) = mout.out

\* ------------------------------------------------------- claims: client
\* Whether the model passed to the last save() held an id.
SavedHadId == "id" \in DOMAIN aret.pre.d /\ aret.pre.d["id"].t # "none"

\* Whether the last save() was answered with the success status of its verb.
SaveSucceeded == aret.status = (IF SavedHadId THEN 200 ELSE 201)

\* C3: save(model) sends exactly one request, a PUT to '<endpoint>/<id>' when
\* the model has an id and a POST to '<endpoint>' when it has none; on the
\* success status the model holds, for every field of the response, what a
\* model built from the response holds; when the request fails save raises and
\* the model's fields and lines are what they were.
C3_SaveRequestAndMerge ==
    aret.op = "save" =>
        /\ aret.nsent = 1
        /\ last_req = Some([method |-> IF SavedHadId THEN "put" ELSE "post",
                            endpoint |-> IF SavedHadId
                                         THEN <<Endpoint(aret.pre.type), aret.pre.d["id"].v>>
                                         ELSE <<Endpoint(aret.pre.type)>>])
        /\ SaveSucceeded /\ aret.body.kind = "object" =>
               /\ aret.exc = ""
               /\ \A k \in DOMAIN aret.body.fd.f :
                      /\ k \in DOMAIN obj[1].d
                      /\ obj[1].d[k] = construct(aret.pre.type, aret.body.fd).d[k]
               /\ aret.body.fd.lines # None /\ aret.pre.type \in InvoiceLike =>
                      obj[1].lines = construct(aret.pre.type, aret.body.fd).lines
        /\ ~SaveSucceeded =>
               /\ aret.exc # ""
               /\ obj[1].d = aret.pre.d
               /\ obj[1].lines = aret.pre.lines

\* A model without an id was saved and holds the id the server assigned.
C3_Witness ==
    /\ aret.op = "save"
    /\ ~SavedHadId
    /\ aret.exc = ""
    /\ last_req = Some([method |-> "post", endpoint |-> <<Endpoint(aret.pre.type)>>])
    /\ "id" \in DOMAIN obj[1].d
    /\ obj[1].d["id"] = Val("int", "7")

\* C5: a request helper returns normally only when the status is the success
\* status of its verb, and then with a response object; for every other
\* status it raises, ValueError when the body has an 'errors' key and an HTTP
\* error otherwise.
C5_ReturnsOnlyOnSuccessStatus ==
    aret.op = "request" =>
        /\ aret.exc = "" => aret.status = SuccessStatus(aret.method) /\ aret.ret # None
        /\ aret.status # SuccessStatus(aret.method) =>
               aret.exc = (IF aret.errors THEN "ValueError" ELSE "HTTPError")

\* C6: constructing a client performs one token exchange; a token response
\* without 'access_token' makes construction fail, whatever its status; a
\* constructed client holds a token, and no later operation changes it or
\* performs another exchange.
C6_ConstructionFailsWithoutToken ==
    /\ exchanges <= 1
    /\ client # "none" => exchanges = 1
    /\ aret.op = "init" /\ aret.given = None => client = "failed" /\ aret.exc # ""
    /\ client = "built" => token # None

\* Whether the last fire() call passed a keyword argument outside the
\* whitelist of its event: 'pay' alone declares one.
OffWhitelist ==
    \E a \in DOMAIN aret.kwargs :
        \/ aret.event # "pay"
        \/ aret.kind = "invoices" /\ a \notin {"paid_at", "paid_amount"}
        \/ aret.kind = "expenses"
           /\ a \notin {"paid_on", "paid_amount", "variable_symbol", "bank_account_id"}

\* C7: a fire() call, for an int id, with a keyword argument outside its
\* event's whitelist raises ValueError, and whatever the id no request is
\* sent; an event other than 'pay' accepts no keyword argument; the POST is
\* sent only after the id type, the event name, the argument names and the
\* type of the date argument have passed validation.
C7_FireValidatesBeforePost ==
    aret.op = "fire" =>
        /\ OffWhitelist => aret.exc # "" /\ aret.nsent = 0
        /\ OffWhitelist /\ aret.id.t = "int" => aret.exc = "ValueError"
        /\ aret.nsent > 0 =>
               /\ aret.id.t = "int"
               /\ aret.event \in EVENTS(aret.kind)
               /\ ~OffWhitelist
               /\ \A a \in DOMAIN aret.kwargs \cap {"paid_at", "paid_on"} :
                      aret.kwargs[a].t \in {"date", "datetime"}

\* 'mark_as_sent' was fired on an invoice with an extra argument: ValueError
\* and no request.
C7_Witness ==
    /\ aret.op = "fire"
    /\ aret.kind = "invoices" /\ aret.event = "mark_as_sent" /\ aret.id.t = "int"
    /\ DOMAIN aret.kwargs = {"note"}
    /\ aret.exc = "ValueError"
    /\ aret.nsent = 0
    /\ sent = 0

\* C8: a find() given a date-typed filter that is neither None nor a date or
\* datetime, or a subject_id that is neither None nor an int, raises TypeError
\* and sends no request.
C8_NonDateFilterRaises ==
    aret.op = "find" =>
        \A a \in DOMAIN aret.args :
            \/ a \in DateFilters /\ aret.args[a].t \notin {"none", "date", "datetime"}
            \/ a = "subject_id" /\ aret.args[a].t \notin {"none", "int"}
            => aret.exc = "TypeError" /\ aret.nsent = 0

\* C10: find() on subjects, invoices, expenses and generators returns a lazy
\* list and sends no request; no page is requested before the list is used.
C10_FindIsLazy ==
    aret.op = "find" /\ aret.exc = "" =>
        /\ aret.nsent = 0
        /\ lst = Some([lazy |-> TRUE])
        /\ pops = 0 => SumReqs(reqs) = 0

====
